---- MODULE Spec2Model ----
(***************************************************************************)
(* Model of the text-analysis pipeline of feedback_synthesizer.py:         *)
(* categorize_issue / categorize_all_issues, extract_themes_by_category    *)
(* and get_representative_quotes.                                           *)
(*                                                                         *)
(* A Python str is a sequence of one-character strings, so that `in`,      *)
(* str.lower(), str.strip(), str.split() and the regular expressions are   *)
(* computed character by character as the interpreter computes them.       *)
(***************************************************************************)
EXTENDS Integers, Sequences, FiniteSets, TLC

VARIABLES
    pc,                 \* position of the run inside the operation in progress
    issues,             \* list[Issue] handed to categorize_all_issues
    categorized,        \* list[CategorizedIssue] it returns
    categorized_issues, \* argument of extract_themes_by_category / get_representative_quotes
    category_groups,    \* extract_themes_by_category: insertion-ordered dict category -> items
    group_idx,          \* index of the category whose group is being processed
    item_idx,           \* index of the next item of the loop in progress
    word_counts,        \* Counter of the current category (insertion-ordered)
    themes_by_category, \* insertion-ordered dict category -> list of themes
    candidate_quotes,   \* get_representative_quotes: list of candidate quotes
    seen_issues,        \* set of issue numbers already quoted
    quotes              \* list of quotes returned

vars == <<pc, issues, categorized, categorized_issues, category_groups, group_idx,
          item_idx, word_counts, themes_by_category, candidate_quotes, seen_issues,
          quotes>>

----------------------------------------------------------------------------
(* Bounds of the model.                                                     *)

MaxIssues == 2   \* issues handed to categorize_all_issues
MaxItems == 3    \* categorized issues handed to extract_themes_by_category
MaxQuoteItems == 6 \* categorized issues handed to get_representative_quotes

----------------------------------------------------------------------------
(* Python str primitives.                                                   *)

UPPER == <<"A","B","C","D","E","F","G","H","I","J","K","L","M","N","O","P","Q","R","S","T",
        "U","V","W","X","Y","Z">>
LOWER == <<"a","b","c","d","e","f","g","h","i","j","k","l","m","n","o","p","q","r","s","t",
        "u","v","w","x","y","z">>
DIGITS == <<"0","1","2","3","4","5","6","7","8","9">>

Range(s) == {s[i] : i \in DOMAIN s}

UpperLetters == Range(UPPER)

\* str.lower() on one character
LowerChar(c) ==
    IF c \in UpperLetters THEN LOWER[CHOOSE i \in DOMAIN UPPER : UPPER[i] = c] ELSE c

\* str.lower()
Lower(s) == [i \in 1..Len(s) |-> LowerChar(s[i])]

\* `key in text` for two str
Contains(text, key) ==
    \/ key = << >>
    \/ \E i \in 1..(Len(text) - Len(key) + 1) :
            text[i] = key[1] /\ SubSeq(text, i, i + Len(key) - 1) = key

\* text.startswith(prefix)
StartsWith(text, prefix) ==
    Len(prefix) <= Len(text) /\ SubSeq(text, 1, Len(prefix)) = prefix

\* text.endswith(suffix)
EndsWith(text, suffix) ==
    Len(suffix) <= Len(text) /\ SubSeq(text, Len(text) - Len(suffix) + 1, Len(text)) = suffix

----------------------------------------------------------------------------
(* Categorizer.                                                             *)

CATEGORY_KEYWORDS == <<
    [category |-> "bug", keywords |-> <<
        <<"b","u","g">>, <<"e","r","r","o","r">>, <<"c","r","a","s","h">>, <<"b","r","o",
                "k","e","n">>, <<"f","a","i","l">>, <<"n","o","t"," ","w","o","r","k","i",
                "n","g">>,
        <<"d","o","e","s","n","'","t"," ","w","o","r","k">>, <<"i","s","s","u","e">>, <<"p",
                "r","o","b","l","e","m">>, <<"e","x","c","e","p","t","i","o","n">>, <<"t",
                "r","a","c","e","b","a","c","k">>,
        <<"u","n","e","x","p","e","c","t","e","d">>, <<"w","r","o","n","g">> >>],
    [category |-> "feature_request", keywords |-> <<
        <<"f","e","a","t","u","r","e">>, <<"r","e","q","u","e","s","t">>, <<"a","d","d">>,
                 <<"s","u","p","p","o","r","t">>, <<"w","o","u","l","d"," ","b","e"," ","n",
                "i","c","e">>,
        <<"s","u","g","g","e","s","t","i","o","n">>, <<"e","n","h","a","n","c","e">>, <<"i",
                "m","p","r","o","v","e","m","e","n","t">>, <<"c","o","u","l","d"," ","y",
                "o","u">>, <<"p","l","e","a","s","e"," ","a","d","d">>,
        <<"w","i","s","h">>, <<"p","r","o","p","o","s","a","l">> >>],
    [category |-> "ux_confusion", keywords |-> <<
        <<"c","o","n","f","u","s","i","n","g">>, <<"u","n","c","l","e","a","r">>, <<"h","o",
                "w"," ","d","o"," ","i">>, <<"h","o","w"," ","t","o">>, <<"d","o","n","'",
                "t"," ","u","n","d","e","r","s","t","a","n","d">>,
        <<"u","n","e","x","p","e","c","t","e","d"," ","b","e","h","a","v","i","o","r">>, <<"i",
                "n","t","u","i","t","i","v","e">>, <<"u","x">>, <<"u","s","e","r"," ","e",
                "x","p","e","r","i","e","n","c","e">>,
        <<"h","a","r","d"," ","t","o">> >>],
    [category |-> "documentation", keywords |-> <<
        <<"d","o","c">>, <<"d","o","c","u","m","e","n","t","a","t","i","o","n">>, <<"r","e",
                "a","d","m","e">>, <<"e","x","a","m","p","l","e">>, <<"t","u","t","o","r",
                "i","a","l">>, <<"g","u","i","d","e">>,
        <<"i","n","s","t","r","u","c","t","i","o","n","s">>, <<"t","y","p","o">>, <<"c","l",
                "a","r","i","f","y">>, <<"e","x","p","l","a","i","n">> >>] >>

label_mapping == <<
    [key |-> <<"b","u","g">>,           category |-> "bug"],
    [key |-> <<"f","e","a","t","u","r","e">>,       category |-> "feature_request"],
    [key |-> <<"e","n","h","a","n","c","e","m","e","n","t">>,   category |-> "feature_request"],
    [key |-> <<"d","o","c","u","m","e","n","t","a","t","i","o","n">>, category |-> "documentation"],
    [key |-> <<"d","o","c","s">>,          category |-> "documentation"],
    [key |-> <<"q","u","e","s","t","i","o","n">>,      category |-> "ux_confusion"] >>

NoCategory == "<none>"

\* variant of label_loop: the mapping keys in the outer loop, the labels in the inner
RECURSIVE label_loop_keys_outer(_, _, _)
label_loop_keys_outer(labels, i, j) ==
    IF j > Len(label_mapping) THEN NoCategory
    ELSE IF i > Len(labels) THEN label_loop_keys_outer(labels, 1, j + 1)
    ELSE IF Contains(labels[i], label_mapping[j].key) THEN label_mapping[j].category
    ELSE label_loop_keys_outer(labels, i + 1, j)

\* for label in labels: for label_key, category in label_mapping.items():
\*     if label_key in label: return category
RECURSIVE label_loop(_, _, _)
label_loop(labels, i, j) ==
    IF i > Len(labels) THEN NoCategory
    ELSE IF j > Len(label_mapping) THEN label_loop(labels, i + 1, 1)
    ELSE IF Contains(labels[i], label_mapping[j].key) THEN label_mapping[j].category
    ELSE label_loop(labels, i, j + 1)

\* for keyword in keywords: if keyword in text: scores[category] += 1
RECURSIVE keyword_score(_, _, _)
keyword_score(keywords, text, k) ==
    IF k > Len(keywords) THEN 0
    ELSE (IF Contains(text, keywords[k]) THEN 1 ELSE 0) + keyword_score(keywords, text, k + 1)

\* scores, in the iteration order of CATEGORY_KEYWORDS
category_scores(text) ==
    [c \in DOMAIN CATEGORY_KEYWORDS |-> keyword_score(CATEGORY_KEYWORDS[c].keywords, text, 1)]

\* max(scores.values())
MaxOf(f) == CHOOSE m \in Range(f) : \A x \in Range(f) : x <= m

\* variant of first_max: the last key whose value is maximal
RECURSIVE last_max(_, _, _)
last_max(scores, c, best) ==
    IF c > Len(scores) THEN best
    ELSE last_max(scores, c + 1, IF scores[c] >= scores[best] THEN c ELSE best)

\* max(scores, key=scores.get): the first key, in iteration order, whose value is maximal
RECURSIVE first_max(_, _, _)
first_max(scores, c, best) ==
    IF c > Len(scores) THEN best
    ELSE first_max(scores, c + 1, IF scores[c] > scores[best] THEN c ELSE best)

confidence_of(max_score) ==
    IF max_score >= 3 THEN "high" ELSE IF max_score >= 2 THEN "medium" ELSE "low"

categorize_issue(issue) ==
    LET text == Lower(issue.title \o <<" ">> \o issue.body)
        labels == [i \in DOMAIN issue.labels |-> Lower(issue.labels[i])]
        by_label == label_loop(labels, 1, 1)
        scores == category_scores(text)
        max_score == MaxOf(scores)
    IN  IF by_label # NoCategory
        THEN [issue |-> issue, category |-> by_label, confidence |-> "high"]
        ELSE IF max_score > 0
        THEN [issue |-> issue,
              category |-> CATEGORY_KEYWORDS[first_max(scores, 2, 1)].category,
              confidence |-> confidence_of(max_score)]
        ELSE [issue |-> issue, category |-> "other", confidence |-> "low"]

\* variant of categorize_all_issues: the result in reverse order
categorize_all_issues_reversed(list) ==
    [i \in DOMAIN list |-> categorize_issue(list[Len(list) + 1 - i])]

categorize_all_issues(list) == [i \in DOMAIN list |-> categorize_issue(list[i])]

----------------------------------------------------------------------------
(* Issues supplied to the categorizer: (title, body, labels) as fetch_issues *)
(* builds them; the issue number is given when the issue is appended.       *)

T_crash    == <<"C","r","a","s","h"," ","o","n"," ","s","t","a","r","t","u","p">>
T_darkmode == <<"C","o","u","l","d"," ","y","o","u"," ","a","d","d"," ","s","u","p","p","o",
        "r","t"," ","f","o","r"," ","d","a","r","k"," ","m","o","d","e">>
T_unclear  == <<"H","o","w"," ","t","o"," ","f","i","x"," ","u","n","c","l","e","a","r"," ",
        "e","r","r","o","r">>
T_readme   == <<"R","e","a","d","m","e"," ","t","y","p","o">>
T_hello    == <<"H","e","l","l","o"," ","w","o","r","l","d">>
T_tie2     == <<"C","r","a","s","h"," ","g","u","i","d","e">>
T_tie3     == <<"U","X"," ","d","o","c"," ","w","i","s","h">>
T_how      == <<"H","o","w">>
T_upper    == <<"B","U","G",":"," ","b","r","o","k","e","n"," ","a","n","d"," ","w","r","o",
        "n","g">>

B_empty    == << >>
B_clarify  == <<"t","o"," ","c","l","a","r","i","f","y">>
B_unexp    == <<"U","n","e","x","p","e","c","t","e","d"," ","b","e","h","a","v","i","o","r">>

L_none     == << >>
L_bug      == << <<"b","u","g">>, <<"n","e","e","d","s","-","t","r","i","a","g","e">> >>
L_feature  == << <<"n","e","e","d","s","-","t","r","i","a","g","e">>, <<"F","e","a","t","u",
        "r","e"," ","R","e","q","u","e","s","t">> >>
L_docsbug  == << <<"d","o","c","s","-","b","u","g">> >>
L_question == << <<"q","u","e","s","t","i","o","n">>, <<"b","u","g">> >>
L_areadoc  == << <<"a","r","e","a",":","d","o","c","u","m","e","n","t","a","t","i","o","n">> >>
L_wontfix  == << <<"w","o","n","t","f","i","x">> >>
L_enh      == << <<"E","n","h","a","n","c","e","m","e","n","t">>, <<"D","o","c","s">> >>

RawIssue(t, b, l) == [title |-> t, body |-> b, labels |-> l]

IssuePool ==
    {RawIssue(t, B_empty, L_none) :
        t \in {T_crash, T_darkmode, T_unclear, T_readme, T_hello, T_tie2, T_tie3,
               T_how, T_upper}}
    \cup {RawIssue(T_hello, B_clarify, L_none), RawIssue(T_how, B_clarify, L_none),
          RawIssue(T_hello, B_unexp, L_none), RawIssue(T_crash, B_empty, L_wontfix),
          RawIssue(T_hello, B_empty, L_wontfix)}
    \cup {RawIssue(t, B_empty, l) :
            t \in {T_darkmode, T_hello},
            l \in {L_bug, L_feature, L_docsbug, L_question, L_areadoc, L_enh}}

Categories == {"bug", "feature_request", "ux_confusion", "documentation", "other"}
Confidences == {"high", "medium", "low"}

----------------------------------------------------------------------------
(* The categorizer as a state machine: issues arrive one by one (the        *)
(* issues.append of fetch_issues), then categorize_all_issues runs.         *)

InitIdle ==
    /\ issues = << >>
    /\ categorized = << >>
    /\ categorized_issues = << >>
    /\ category_groups = << >>
    /\ group_idx = 0
    /\ item_idx = 0
    /\ word_counts = << >>
    /\ themes_by_category = << >>
    /\ candidate_quotes = << >>
    /\ seen_issues = {}
    /\ quotes = << >>

InitCategorize == pc = "fetch" /\ InitIdle

FetchIssue(raw) ==
    /\ pc = "fetch"
    /\ Len(issues) < MaxIssues
    /\ issues' = Append(issues, [number |-> Len(issues) + 1, title |-> raw.title,
                                 body |-> raw.body, labels |-> raw.labels])
    /\ UNCHANGED <<pc, categorized, categorized_issues, category_groups, group_idx,
                   item_idx, word_counts, themes_by_category, candidate_quotes,
                   seen_issues, quotes>>

CategorizeAll ==
    /\ pc = "fetch"
    /\ categorized' = categorize_all_issues(issues)
    /\ pc' = "categorized"
    /\ UNCHANGED <<issues, categorized_issues, category_groups, group_idx, item_idx,
                   word_counts, themes_by_category, candidate_quotes, seen_issues,
                   quotes>>

NextCategorize == (\E raw \in IssuePool : FetchIssue(raw)) \/ CategorizeAll

SpecCategorize == InitCategorize /\ [][NextCategorize]_vars

----------------------------------------------------------------------------
(* Claims about the categorizer.                                            *)

MinOf(S) == CHOOSE m \in S : \A x \in S : m <= x

LoweredLabels(issue) == [i \in DOMAIN issue.labels |-> Lower(issue.labels[i])]

\* the mapping keys a lower-cased label contains, as positions of the mapping
KeysIn(label) == {k \in DOMAIN label_mapping : Contains(label, label_mapping[k].key)}

\* the labels of an issue that contain at least one mapping key
MatchingLabels(issue) ==
    {l \in DOMAIN issue.labels : KeysIn(LoweredLabels(issue)[l]) # {}}

\* number of distinct keywords of category c occurring in the text
KeywordHits(c, text) ==
    Cardinality({kw \in Range(CATEGORY_KEYWORDS[c].keywords) : Contains(text, kw)})

IssueText(issue) == Lower(issue.title \o <<" ">> \o issue.body)

\* C1: when some label contains a mapping key, the first such label (label
\* order) and, within it, the first matching key (mapping order) decide the
\* category, the confidence is high, and title and body do not matter.
C1_LabelShortcut ==
    pc = "categorized" =>
        \A i \in DOMAIN issues :
            MatchingLabels(issues[i]) # {} =>
                LET l0 == MinOf(MatchingLabels(issues[i]))
                    k0 == MinOf(KeysIn(LoweredLabels(issues[i])[l0]))
                IN  /\ categorized[i].category = label_mapping[k0].category
                    /\ categorized[i].confidence = "high"
                    /\ \A j \in DOMAIN issues :
                        issues[j].labels = issues[i].labels =>
                            /\ categorized[j].category = categorized[i].category
                            /\ categorized[j].confidence = categorized[i].confidence

\* two issues with the same labels, one of them a label holding two keys or
\* a later label holding an earlier key, and texts that score differently
C1_Witness ==
    /\ pc = "categorized"
    /\ \E i, j \in DOMAIN issues :
        /\ i # j
        /\ issues[i].labels = issues[j].labels
        /\ Cardinality(MatchingLabels(issues[i])) >= 2
        /\ LET l0 == MinOf(MatchingLabels(issues[i]))
           IN  \E l \in MatchingLabels(issues[i]) :
                   l > l0 /\ MinOf(KeysIn(LoweredLabels(issues[i])[l]))
                             < MinOf(KeysIn(LoweredLabels(issues[i])[l0]))
        /\ category_scores(IssueText(issues[i])) # category_scores(IssueText(issues[j]))

\* C2: with no matching label, each category scores the number of its
\* keywords occurring in the text; maximum 0 gives other/low; otherwise the
\* first category of bug, feature_request, ux_confusion, documentation that
\* reaches the maximum wins, with high for >= 3, medium for 2, low for 1.
C2_Order == <<"bug", "feature_request", "ux_confusion", "documentation">>

C2_KeywordFallback ==
    pc = "categorized" =>
        \A i \in DOMAIN issues :
            MatchingLabels(issues[i]) = {} =>
                LET text == IssueText(issues[i])
                    pos(name) == CHOOSE c \in DOMAIN CATEGORY_KEYWORDS :
                                    CATEGORY_KEYWORDS[c].category = name
                    score(n) == KeywordHits(pos(C2_Order[n]), text)
                    m == MaxOf([n \in 1..4 |-> score(n)])
                IN  IF m = 0
                    THEN /\ categorized[i].category = "other"
                         /\ categorized[i].confidence = "low"
                    ELSE /\ \E n \in 1..4 :
                            /\ categorized[i].category = C2_Order[n]
                            /\ score(n) = m
                            /\ \A n2 \in 1..(n - 1) : score(n2) < m
                         /\ categorized[i].confidence =
                                CASE m >= 3 -> "high" [] m = 2 -> "medium" [] m = 1 -> "low"

\* one issue whose maximum is shared by two categories, neither the first,
\* next to one that matches no keyword at all
C2_Witness ==
    /\ pc = "categorized"
    /\ \E i, j \in DOMAIN issues :
        /\ MatchingLabels(issues[i]) = {} /\ MatchingLabels(issues[j]) = {}
        /\ issues[i].labels # << >>
        /\ \A c \in 1..4 : KeywordHits(c, IssueText(issues[i])) = 0
        /\ KeywordHits(1, IssueText(issues[j])) = 0
        /\ \E c, d \in 2..4 :
            /\ c < d
            /\ KeywordHits(c, IssueText(issues[j])) = KeywordHits(d, IssueText(issues[j]))
            /\ KeywordHits(c, IssueText(issues[j])) > 0
            /\ \A e \in 1..4 : KeywordHits(e, IssueText(issues[j]))
                                <= KeywordHits(c, IssueText(issues[j]))

\* C6: categorize_all_issues returns one categorized issue per input issue,
\* in input order, each carrying its issue unchanged with one category and
\* one confidence.
C6_OneToOne ==
    pc = "categorized" =>
        /\ Len(categorized) = Len(issues)
        /\ \A i \in DOMAIN issues :
            /\ DOMAIN categorized[i] = {"issue", "category", "confidence"}
            /\ categorized[i].issue = issues[i]
            /\ categorized[i].category \in Categories
            /\ categorized[i].confidence \in Confidences

C6_Witness ==
    /\ pc = "categorized"
    /\ Len(issues) = MaxIssues
    /\ \E i, j \in DOMAIN issues :
        /\ i < j
        /\ issues[i].title # issues[j].title
        /\ categorized[i].category # categorized[j].category

----------------------------------------------------------------------------
(* Theme extractor.                                                         *)

stopwords == {
    <<"t","h","e">>, <<"a">>, <<"a","n">>, <<"i","s">>, <<"a","r","e">>, <<"w","a","s">>,
             <<"w","e","r","e">>, <<"b","e">>, <<"b","e","e","n">>,
    <<"b","e","i","n","g">>, <<"h","a","v","e">>, <<"h","a","s">>, <<"h","a","d">>, <<"d",
            "o">>, <<"d","o","e","s">>, <<"d","i","d">>, <<"w","i","l","l">>,
    <<"w","o","u","l","d">>, <<"c","o","u","l","d">>, <<"s","h","o","u","l","d">>, <<"m",
            "a","y">>, <<"m","i","g","h","t">>, <<"m","u","s","t">>, <<"s","h","a","l","l">>,
             <<"c","a","n">>,
    <<"n","e","e","d">>, <<"t","o">>, <<"o","f">>, <<"i","n">>, <<"f","o","r">>, <<"o","n">>,
             <<"w","i","t","h">>, <<"a","t">>, <<"b","y">>,
    <<"f","r","o","m">>, <<"a","s">>, <<"i","n","t","o">>, <<"t","h","r","o","u","g","h">>,
             <<"d","u","r","i","n","g">>, <<"b","e","f","o","r","e">>, <<"a","f","t","e",
            "r">>,
    <<"a","b","o","v","e">>, <<"b","e","l","o","w">>, <<"b","e","t","w","e","e","n">>, <<"u",
            "n","d","e","r">>, <<"a","g","a","i","n">>, <<"f","u","r","t","h","e","r">>, <<"t",
            "h","e","n">>,
    <<"o","n","c","e">>, <<"h","e","r","e">>, <<"t","h","e","r","e">>, <<"w","h","e","n">>,
             <<"w","h","e","r","e">>, <<"w","h","y">>, <<"h","o","w">>, <<"a","l","l">>,
    <<"e","a","c","h">>, <<"f","e","w">>, <<"m","o","r","e">>, <<"m","o","s","t">>, <<"o",
            "t","h","e","r">>, <<"s","o","m","e">>, <<"s","u","c","h">>, <<"n","o">>,
    <<"n","o","r">>, <<"n","o","t">>, <<"o","n","l","y">>, <<"o","w","n">>, <<"s","a","m",
            "e">>, <<"s","o">>, <<"t","h","a","n">>, <<"t","o","o">>, <<"v","e","r","y">>,
    <<"j","u","s","t">>, <<"a","n","d">>, <<"b","u","t">>, <<"i","f">>, <<"o","r">>, <<"b",
            "e","c","a","u","s","e">>, <<"u","n","t","i","l">>, <<"w","h","i","l","e">>,
    <<"t","h","i","s">>, <<"t","h","a","t">>, <<"t","h","e","s","e">>, <<"t","h","o","s",
            "e">>, <<"i">>, <<"m","e">>, <<"m","y">>, <<"m","y","s","e","l","f">>,
    <<"w","e">>, <<"o","u","r">>, <<"y","o","u">>, <<"y","o","u","r">>, <<"h","e">>, <<"h",
            "i","m">>, <<"h","i","s">>, <<"s","h","e">>, <<"h","e","r">>,
    <<"i","t">>, <<"i","t","s">>, <<"t","h","e","y">>, <<"t","h","e","m">>, <<"t","h","e",
            "i","r">>, <<"w","h","a","t">>, <<"w","h","i","c","h">>, <<"w","h","o">>,
    <<"w","h","o","m">>, <<"c","l","a","u","d","e">>, <<"c","o","d","e">>, <<"u","s","e">>,
             <<"u","s","i","n","g">>, <<"u","s","e","d">>, <<"g","e","t">>, <<"g","o","t">>,
    <<"l","i","k","e">>, <<"a","l","s","o">>, <<"s","e","e">>, <<"t","r","y">>, <<"t","r",
            "y","i","n","g">>, <<"w","a","n","t">>, <<"w","o","r","k">>, <<"w","o","r","k",
            "s">>,
    <<"w","o","r","k","i","n","g">>, <<"i","s","s","u","e">>, <<"e","r","r","o","r">>, <<"f",
            "i","l","e">>, <<"f","i","l","e","s">>, <<"v","e","r","s","i","o","n">>, <<"r",
            "o","o","t">>,
    <<"c","o","n","t","e","x","t">>, <<"t","r","a","c","e","b","a","c","k">>, <<"p","a","t",
            "h">>, <<"d","i","r","e","c","t","o","r","y">>, <<"c","o","m","m","a","n","d">>,
             <<"t","e","r","m","i","n","a","l">>,
    <<"o","u","t","p","u","t">>, <<"l","i","n","e">>, <<"n","o","d","e">>, <<"p","y","t",
            "h","o","n">>, <<"b","a","s","h">>, <<"s","h","e","l","l">>, <<"s","u","d","o">>,
    <<"s","t","d","e","r","r">>, <<"s","t","d","o","u","t">>, <<"d","e","b","u","g">>, <<"i",
            "n","f","o">>, <<"w","a","r","n">>, <<"f","a","t","a","l">>, <<"s","t","a","c",
            "k">>,
    <<"t","r","a","c","e">>, <<"e","x","c","e","p","t","i","o","n">>, <<"n","u","l","l">>,
             <<"u","n","d","e","f","i","n","e","d">>, <<"t","r","u","e">>, <<"f","a","l",
            "s","e">>, <<"n","o","n","e">>,
    <<"s","t","r","i","n","g">>, <<"n","u","m","b","e","r">>, <<"o","b","j","e","c","t">>,
             <<"a","r","r","a","y">>, <<"f","u","n","c","t","i","o","n">>, <<"m","o","d",
            "u","l","e">>,
    <<"i","m","p","o","r","t">>, <<"e","x","p","o","r","t">>, <<"c","o","n","s","t">>, <<"r",
            "e","t","u","r","n">>, <<"a","s","y","n","c">>, <<"a","w","a","i","t">>, <<"p",
            "r","o","c","e","s","s">>,
    <<"s","y","s","t","e","m">>, <<"u","s","e","r">>, <<"u","s","e","r","s">>, <<"h","o",
            "m","e">>, <<"l","o","c","a","l">>, <<"g","l","o","b","a","l">>, <<"p","a","c",
            "k","a","g","e">>,
    <<"p","a","c","k","a","g","e","s">>, <<"i","n","s","t","a","l","l">>, <<"i","n","s","t",
            "a","l","l","e","d">>, <<"h","t","t","p","s">>, <<"g","i","t","h","u","b">>, <<"a",
            "n","t","h","r","o","p","i","c">>,
    <<"a","n","t","h","r","o","p","i","c","s">>, <<"e","x","i","s","t","i","n","g">>, <<"s",
            "e","a","r","c","h","e","d">>, <<"c","h","e","c","k","e","d">>, <<"c","o","n",
            "f","i","r","m">>, <<"e","x","p","e","c","t","e","d">>,
    <<"a","c","t","u","a","l">>, <<"b","e","h","a","v","i","o","r">>, <<"s","t","e","p","s">>,
             <<"r","e","p","r","o","d","u","c","e">>, <<"e","n","v","i","r","o","n","m","e",
            "n","t">>, <<"o","p","e","r","a","t","i","n","g">>,
    <<"l","o","g","s">>, <<"r","e","l","e","v","a","n","t">>, <<"a","d","d","i","t","i","o",
            "n","a","l">>, <<"i","n","f","o","r","m","a","t","i","o","n">>, <<"f","e","a",
            "t","u","r","e">>, <<"r","e","q","u","e","s","t">>,
    <<"f","e","a","t">>, <<"e","n","h","a","n","c","e","m","e","n","t">>, <<"c","r","i","t",
            "i","c","a","l">>, <<"m","i","n","o","r">>, <<"m","a","j","o","r">> }

\* \w of the regular expressions (ASCII): a letter, a digit or an underscore
WordChars == Range(LOWER) \cup Range(UPPER) \cup Range(DIGITS) \cup {"_"}
IsWordChar(c) == c \in WordChars

\* [a-z]
LowerLetters == Range(LOWER)
IsLowerLetter(c) == c \in LowerLetters

\* \b before the character at position p (p = Len(text) + 1: at the end)
word_boundary(text, p) ==
    LET before == p > 1 /\ IsWordChar(text[p - 1])
        after == p <= Len(text) /\ IsWordChar(text[p])
    IN  before # after

\* length of the run of [a-z] that starts at position p
RECURSIVE letter_run(_, _)
letter_run(text, p) ==
    IF p > Len(text) \/ ~IsLowerLetter(text[p]) THEN 0 ELSE 1 + letter_run(text, p + 1)

\* variant of findall_words: the pattern without its \b anchors, [a-z]{4,}
RECURSIVE findall_words_unanchored(_, _)
findall_words_unanchored(text, p) ==
    IF p > Len(text) THEN << >>
    ELSE LET run == letter_run(text, p)
         IN  IF run >= 4
             THEN <<SubSeq(text, p, p + run - 1)>> \o findall_words_unanchored(text, p + run)
             ELSE findall_words_unanchored(text, p + 1)

\* re.findall(r'\b[a-z]{4,}\b', text), scanning from position p: at each
\* position the pattern needs \b, then the longest stretch of 4 or more
\* [a-z] after which \b holds again; matches do not overlap.
RECURSIVE findall_words(_, _)
findall_words(text, p) ==
    IF p > Len(text) THEN << >>
    ELSE LET run == letter_run(text, p)
             ends == {n \in 4..run : word_boundary(text, p + n)}
         IN  IF word_boundary(text, p) /\ ends # {}
             THEN LET n == CHOOSE m \in ends : \A x \in ends : x <= m
                  IN  <<SubSeq(text, p, p + n - 1)>> \o findall_words(text, p + n)
             ELSE findall_words(text, p + 1)

\* variant of title_words: each word of a title kept once
RECURSIVE first_occurrences(_)
first_occurrences(words) ==
    IF words = << >> THEN << >>
    ELSE <<Head(words)>>
         \o first_occurrences(SelectSeq(Tail(words), LAMBDA x : x # Head(words)))

title_words_distinct(title) ==
    first_occurrences(SelectSeq(findall_words(Lower(title), 1), LAMBDA w : w \notin stopwords))

\* words = re.findall(...); words = [w for w in words if w not in stopwords]
title_words(title) ==
    SelectSeq(findall_words(Lower(title), 1), LAMBDA w : w \notin stopwords)

\* variant of counter_update: every word counted once per call (per title)
RECURSIVE counter_update_distinct(_, _)
counter_update_distinct(counter, words) ==
    IF words = << >> THEN counter
    ELSE LET w == Head(words)
             rest == SelectSeq(Tail(words), LAMBDA x : x # w)
             at == {i \in DOMAIN counter : counter[i].word = w}
         IN  IF at = {}
             THEN counter_update_distinct(Append(counter, [word |-> w, count |-> 1]), rest)
             ELSE counter_update_distinct(
                      [i \in DOMAIN counter |->
                          IF i \in at THEN [word |-> w, count |-> counter[i].count + 1]
                          ELSE counter[i]], rest)

\* Counter.update(words): a Counter is an insertion-ordered dict, here the
\* sequence of its (word, count) entries in insertion order
RECURSIVE counter_update(_, _)
counter_update(counter, words) ==
    IF words = << >> THEN counter
    ELSE LET w == Head(words)
             at == {i \in DOMAIN counter : counter[i].word = w}
         IN  IF at = {}
             THEN counter_update(Append(counter, [word |-> w, count |-> 1]), Tail(words))
             ELSE counter_update(
                      [i \in DOMAIN counter |->
                          IF i \in at THEN [word |-> w, count |-> counter[i].count + 1]
                          ELSE counter[i]], Tail(words))

\* one index put into a list of indices sorted by descending key, after the
\* indices whose key is at least its own
insert_desc(order, i, keys) ==
    LET n == Cardinality({k \in DOMAIN order : keys[order[k]] >= keys[i]})
    IN  SubSeq(order, 1, n) \o <<i>> \o SubSeq(order, n + 1, Len(order))

RECURSIVE order_desc(_, _)
order_desc(keys, n) ==
    IF n = 0 THEN << >> ELSE insert_desc(order_desc(keys, n - 1), n, keys)

\* sorted(seq, key=..., reverse=True), keys[i] the key of seq[i]: stable,
\* elements of equal key keep their order
sorted_desc(seq, keys) ==
    LET order == order_desc(keys, Len(seq))
    IN  [k \in DOMAIN order |-> seq[order[k]]]

Counts(counter) == [i \in DOMAIN counter |-> counter[i].count]

\* variant of most_common: equal counts in reverse insertion order
most_common_unstable(counter, n) ==
    LET rev == [i \in DOMAIN counter |-> counter[Len(counter) + 1 - i]]
        ranked == sorted_desc(rev, Counts(rev))
    IN  SubSeq(ranked, 1, IF n < Len(ranked) THEN n ELSE Len(ranked))

\* Counter.most_common(n): the n entries of highest count, equal counts in
\* insertion order
most_common(counter, n) ==
    LET ranked == sorted_desc(counter, Counts(counter))
    IN  SubSeq(ranked, 1, IF n < Len(ranked) THEN n ELSE Len(ranked))

\* str(count) of a non-negative int
RECURSIVE Decimal(_)
Decimal(n) ==
    IF n < 10 THEN <<DIGITS[n + 1]>> ELSE Decimal(n \div 10) \o <<DIGITS[(n % 10) + 1]>>

\* f"{word} ({count})"
format_theme(word, count) == word \o <<" ", "(">> \o Decimal(count) \o <<")">>

TOP_WORDS == 5
MIN_MENTIONS == 2
THEMES_PER_CATEGORY == 3

\* variant of category_themes: no threshold on the count
category_themes_no_threshold(counter) ==
    LET top == most_common(counter, TOP_WORDS)
    IN  [i \in DOMAIN top |-> format_theme(top[i].word, top[i].count)]

\* themes = [f"{word} ({count})" for word, count in word_counts.most_common(5)
\*           if count >= 2]
category_themes(counter) ==
    LET top == most_common(counter, TOP_WORDS)
        kept == SelectSeq(top, LAMBDA e : e.count >= MIN_MENTIONS)
    IN  [i \in DOMAIN kept |-> format_theme(kept[i].word, kept[i].count)]

\* themes[:3]
first_themes(themes) ==
    SubSeq(themes, 1, IF Len(themes) > THEMES_PER_CATEGORY
                      THEN THEMES_PER_CATEGORY ELSE Len(themes))

\* the grouping loop: category_groups[cat].append(item), a new key entering
\* the dict behind the keys already there
RECURSIVE group_by_category(_, _)
group_by_category(items, n) ==
    IF n = 0 THEN << >>
    ELSE LET groups == group_by_category(items, n - 1)
             cat == items[n].category
             at == {g \in DOMAIN groups : groups[g].category = cat}
         IN  IF at = {}
             THEN Append(groups, [category |-> cat, items |-> <<items[n]>>])
             ELSE [g \in DOMAIN groups |->
                      IF g \in at
                      THEN [category |-> cat, items |-> Append(groups[g].items, items[n])]
                      ELSE groups[g]]

----------------------------------------------------------------------------
(* Categorized issues supplied to the theme extractor: only the title and   *)
(* the category of an item are read.                                        *)

TT_forward == <<"L","o","g","i","n"," ","c","r","a","s","h"," ","t","i","m","e","o","u","t",
        " ","s","y","n","c">>
TT_reverse == <<"s","y","n","c"," ","t","i","m","e","o","u","t"," ","c","r","a","s","h"," ",
        "l","o","g","i","n">>
TT_twice   == <<"C","r","a","s","h"," ","c","r","a","s","h"," ","o","n"," ","l","o","g","i",
        "n">>
TT_digit   == <<"o","a","u","t","h","2"," ","l","o","g","i","n"," ","f","a","i","l","s">>
TT_under   == <<"l","o","g","i","n","_","p","a","g","e"," ","s","y","n","c","-","t","i","m",
        "e","o","u","t"," ","e","r","r","o","r">>

ThemeTitles == {TT_forward, TT_reverse, TT_twice, TT_digit, TT_under}
ThemeCategories == {"bug", "other"}

InitThemes == pc = "input" /\ InitIdle

AddCategorized(title, category) ==
    /\ pc = "input"
    /\ Len(categorized_issues) < MaxItems
    /\ categorized_issues' =
        Append(categorized_issues,
               [issue |-> [number |-> Len(categorized_issues) + 1, title |-> title,
                           body |-> << >>, labels |-> << >>],
                category |-> category, confidence |-> "low"])
    /\ UNCHANGED <<pc, issues, categorized, category_groups, group_idx, item_idx,
                   word_counts, themes_by_category, candidate_quotes, seen_issues,
                   quotes>>

\* extract_themes_by_category, lines 204-213: the grouping loop
GroupIssues ==
    /\ pc = "input"
    /\ category_groups' = group_by_category(categorized_issues, Len(categorized_issues))
    /\ themes_by_category' = << >>
    /\ group_idx' = 1
    /\ item_idx' = 1
    /\ word_counts' = << >>
    /\ pc' = "count"
    /\ UNCHANGED <<issues, categorized, categorized_issues, candidate_quotes,
                   seen_issues, quotes>>

\* lines 218-224: one title of the current group goes into the counter
CountTitle ==
    /\ pc = "count"
    /\ group_idx <= Len(category_groups)
    /\ item_idx <= Len(category_groups[group_idx].items)
    /\ word_counts' =
        counter_update(word_counts,
                       title_words(category_groups[group_idx].items[item_idx].issue.title))
    /\ item_idx' = item_idx + 1
    /\ UNCHANGED <<pc, issues, categorized, categorized_issues, category_groups,
                   group_idx, themes_by_category, candidate_quotes, seen_issues, quotes>>

\* lines 226-233: the themes of the current group, then the next group
RankThemes ==
    /\ pc = "count"
    /\ group_idx <= Len(category_groups)
    /\ item_idx > Len(category_groups[group_idx].items)
    /\ LET themes == category_themes(word_counts)
       IN  themes_by_category' =
            IF themes # << >>
            THEN Append(themes_by_category,
                        [category |-> category_groups[group_idx].category,
                         themes |-> first_themes(themes)])
            ELSE themes_by_category
    /\ group_idx' = group_idx + 1
    /\ item_idx' = 1
    /\ word_counts' = << >>
    /\ UNCHANGED <<pc, issues, categorized, categorized_issues, category_groups,
                   candidate_quotes, seen_issues, quotes>>

\* line 235: return themes_by_category
ReturnThemes ==
    /\ pc = "count"
    /\ group_idx > Len(category_groups)
    /\ pc' = "done"
    /\ UNCHANGED <<issues, categorized, categorized_issues, category_groups, group_idx,
                   item_idx, word_counts, themes_by_category, candidate_quotes,
                   seen_issues, quotes>>

NextThemes ==
    \/ \E t \in ThemeTitles, c \in ThemeCategories : AddCategorized(t, c)
    \/ GroupIssues
    \/ CountTitle
    \/ RankThemes
    \/ ReturnThemes

SpecThemes == InitThemes /\ [][NextThemes]_vars

----------------------------------------------------------------------------
(* Claims about the theme extractor.                                        *)

\* the lower-cased titles of the items of a category, in list order
GroupTitlesOf(cat) ==
    LET sel == SelectSeq(categorized_issues, LAMBDA it : it.category = cat)
    IN  [i \in DOMAIN sel |-> Lower(sel[i].issue.title)]

InputCategories == {categorized_issues[i].category : i \in DOMAIN categorized_issues}

\* positions p..p+n-1 of text hold a maximal run of lower-case letters
IsMaximalRun(text, p, n) ==
    /\ n >= 1 /\ p >= 1 /\ p + n - 1 <= Len(text)
    /\ \A i \in p..(p + n - 1) : IsLowerLetter(text[i])
    /\ (p = 1 \/ ~IsLowerLetter(text[p - 1]))
    /\ (p + n > Len(text) \/ ~IsLowerLetter(text[p + n]))

\* the run is delimited: no letter, digit or underscore adjoins it
IsDelimited(text, p, n) ==
    /\ (p = 1 \/ ~IsWordChar(text[p - 1]))
    /\ (p + n > Len(text) \/ ~IsWordChar(text[p + n]))

\* starting positions at which the word w stands in text as a delimited run
WordPositions(w, text) ==
    {p \in 1..(Len(text) - Len(w) + 1) :
        SubSeq(text, p, p + Len(w) - 1) = w /\ IsDelimited(text, p, Len(w))}

Occurrences(w, text) == Cardinality(WordPositions(w, text))

RECURSIVE TotalOccurrences(_, _, _)
TotalOccurrences(w, titles, n) ==
    IF n = 0 THEN 0 ELSE TotalOccurrences(w, titles, n - 1) + Occurrences(w, titles[n])

TitlesContaining(w, titles) ==
    Cardinality({i \in DOMAIN titles : Occurrences(w, titles[i]) >= 1})

\* the maximal runs of 4 or more letters of a text that are not stopwords
LongRuns(text) ==
    LET starts == {p \in 1..Len(text) :
                    IsLowerLetter(text[p]) /\ (p = 1 \/ ~IsLowerLetter(text[p - 1]))}
        stop(p) == MinOf({q \in (p + 1)..(Len(text) + 1) :
                            q > Len(text) \/ ~IsLowerLetter(text[q])})
    IN  {SubSeq(text, p, stop(p) - 1) : p \in {s \in starts : stop(s) - s >= 4}}
        \ stopwords

\* those among them that stand delimited somewhere in the text
DelimitedRuns(text) == {w \in LongRuns(text) : Occurrences(w, text) >= 1}

GroupTokens(titles) == UNION {DelimitedRuns(titles[i]) : i \in DOMAIN titles}

\* "word (count)" read back
ThemeWord(theme) ==
    SubSeq(theme, 1, MinOf({i \in DOMAIN theme : theme[i] = " "}) - 1)

RECURSIVE ParseDecimal(_)
ParseDecimal(ds) ==
    IF ds = << >> THEN 0
    ELSE 10 * ParseDecimal(SubSeq(ds, 1, Len(ds) - 1))
         + (CHOOSE d \in 0..9 : DIGITS[d + 1] = ds[Len(ds)])

ThemeCount(theme) ==
    ParseDecimal(SubSeq(theme, MinOf({i \in DOMAIN theme : theme[i] = "("}) + 1,
                        Len(theme) - 1))

\* the themes returned for a category, << >> when the mapping has no such key
ThemesOf(cat) ==
    LET at == {e \in DOMAIN themes_by_category : themes_by_category[e].category = cat}
    IN  IF at = {} THEN << >> ELSE themes_by_category[CHOOSE e \in at : TRUE].themes

\* C4, as stated: the count of a returned theme is the number of titles of
\* the category's group that contain the word at least once.
C4_CountIsTitles ==
    pc = "done" =>
        \A e \in DOMAIN themes_by_category :
            \A t \in DOMAIN themes_by_category[e].themes :
                LET theme == themes_by_category[e].themes[t]
                    titles == GroupTitlesOf(themes_by_category[e].category)
                IN  ThemeCount(theme) = TitlesContaining(ThemeWord(theme), titles)

\* C4, amended: the count of a returned theme is the total number of
\* occurrences of the word as a token across the titles of the category's
\* group, a title that holds the word twice counting twice.
C4_CountIsOccurrences ==
    pc = "done" =>
        \A e \in DOMAIN themes_by_category :
            \A t \in DOMAIN themes_by_category[e].themes :
                LET theme == themes_by_category[e].themes[t]
                    titles == GroupTitlesOf(themes_by_category[e].category)
                IN  ThemeCount(theme) = TotalOccurrences(ThemeWord(theme), titles, Len(titles))

\* a returned theme whose word stands twice in one title and in a second title
C4_Witness ==
    /\ pc = "done"
    /\ \E e \in DOMAIN themes_by_category :
        \E t \in DOMAIN themes_by_category[e].themes :
            LET theme == themes_by_category[e].themes[t]
                titles == GroupTitlesOf(themes_by_category[e].category)
            IN  /\ TitlesContaining(ThemeWord(theme), titles) = 2
                /\ ThemeCount(theme) = 3
                /\ \E i \in DOMAIN titles : Occurrences(ThemeWord(theme), titles[i]) = 2

\* C5: every category of the mapping has 1 to 3 themes, each of count >= 2,
\* and a category none of whose tokens reaches count 2 is not in the mapping.
C5_ThemeBounds ==
    pc = "done" =>
        /\ \A e \in DOMAIN themes_by_category :
            /\ Len(themes_by_category[e].themes) \in 1..3
            /\ \A t \in DOMAIN themes_by_category[e].themes :
                ThemeCount(themes_by_category[e].themes[t]) >= 2
            /\ themes_by_category[e].category \in InputCategories
            /\ \A e2 \in DOMAIN themes_by_category :
                themes_by_category[e2].category = themes_by_category[e].category => e2 = e
        /\ \A cat \in InputCategories :
            LET titles == GroupTitlesOf(cat)
            IN  (\A w \in GroupTokens(titles) : TotalOccurrences(w, titles, Len(titles)) < 2)
                    => \A e \in DOMAIN themes_by_category :
                            themes_by_category[e].category # cat

\* one category capped at 3 themes out of 4 qualifying tokens, another with
\* tokens but none of count 2, absent from the mapping
C5_Witness ==
    /\ pc = "done"
    /\ \E c1, c2 \in InputCategories :
        /\ Len(ThemesOf(c1)) = 3
        /\ Cardinality({w \in GroupTokens(GroupTitlesOf(c1)) :
                TotalOccurrences(w, GroupTitlesOf(c1), Len(GroupTitlesOf(c1))) >= 2}) = 4
        /\ GroupTokens(GroupTitlesOf(c2)) # {}
        /\ \A e \in DOMAIN themes_by_category : themes_by_category[e].category # c2

\* the count the counter holds for a word, 0 when it is not a key
CounterValue(counter, w) ==
    LET at == {i \in DOMAIN counter : counter[i].word = w}
    IN  IF at = {} THEN 0 ELSE counter[CHOOSE i \in at : TRUE].count

CounterWords(counter) == {counter[i].word : i \in DOMAIN counter}

\* C8: each title adds to the counter of its category one per occurrence of
\* a token, so a title holding a non-stopword token twice adds 2 to it (and
\* alone lifts it to the threshold of 2).
C8_FlatCounting ==
    [][(pc = "count" /\ item_idx' = item_idx + 1) =>
        LET title == Lower(category_groups[group_idx].items[item_idx].issue.title)
        IN  \A w \in CounterWords(word_counts') \cup DelimitedRuns(title) :
                CounterValue(word_counts', w)
                    = CounterValue(word_counts, w) + Occurrences(w, title)]_vars

\* a category whose group is a single title, with a theme of count 2
C8_Witness ==
    /\ pc = "done"
    /\ \E e \in DOMAIN themes_by_category :
        /\ Len(GroupTitlesOf(themes_by_category[e].category)) = 1
        /\ \E t \in DOMAIN themes_by_category[e].themes :
            ThemeCount(themes_by_category[e].themes[t]) = 2

\* the place a token is first met in a group: (title index, position)
FirstSeen(w, titles) ==
    LET i == MinOf({k \in DOMAIN titles : Occurrences(w, titles[k]) >= 1})
    IN  <<i, MinOf(WordPositions(w, titles[i]))>>

\* a ranks before b: higher count, or equal count and met earlier
RanksBefore(a, b, titles) ==
    LET ca == TotalOccurrences(a, titles, Len(titles))
        cb == TotalOccurrences(b, titles, Len(titles))
        fa == FirstSeen(a, titles)
        fb == FirstSeen(b, titles)
    IN  \/ ca > cb
        \/ ca = cb /\ (fa[1] < fb[1] \/ (fa[1] = fb[1] /\ fa[2] < fb[2]))

\* C9: the themes of a category are, in ranking order (descending count,
\* equal counts in first-met order), the first 3 of the tokens of count >= 2
\* among the 5 tokens ranked first.
C9_ThemeOrder ==
    pc = "done" =>
        \A cat \in InputCategories :
            LET titles == GroupTitlesOf(cat)
                tokens == GroupTokens(titles)
                ahead(w, S) == Cardinality({v \in S : RanksBefore(v, w, titles)})
                top == {w \in tokens : ahead(w, tokens) < 5}
                qualifying == {w \in top : TotalOccurrences(w, titles, Len(titles)) >= 2}
                shown == {w \in qualifying : ahead(w, qualifying) < 3}
                themes == ThemesOf(cat)
            IN  /\ Len(themes) = Cardinality(shown)
                /\ \A w \in shown :
                    LET theme == themes[ahead(w, shown) + 1]
                    IN  /\ ThemeWord(theme) = w
                        /\ ThemeCount(theme) = TotalOccurrences(w, titles, Len(titles))

\* a category with 4 tokens of count >= 2: two returned themes of equal
\* count, one of higher count, and a token left out that ties with the last
C9_Witness ==
    /\ pc = "done"
    /\ \E cat \in InputCategories :
        LET themes == ThemesOf(cat)
            titles == GroupTitlesOf(cat)
        IN  /\ Len(themes) = 3
            /\ ThemeCount(themes[1]) > ThemeCount(themes[2])
            /\ ThemeCount(themes[2]) = ThemeCount(themes[3])
            /\ \E w \in GroupTokens(titles) :
                /\ \A t \in 1..3 : ThemeWord(themes[t]) # w
                /\ TotalOccurrences(w, titles, Len(titles)) = ThemeCount(themes[3])

\* the titles of the current group that have gone into the counter
CountedTitles ==
    IF pc = "count" /\ group_idx <= Len(category_groups)
    THEN [k \in 1..(item_idx - 1) |->
            Lower(category_groups[group_idx].items[k].issue.title)]
    ELSE << >>

----------------------------------------------------------------------------
(* Text filters and the quote selector.                                     *)

\* what str.strip() removes and \s matches (ASCII)
Whitespace == {" ", "\t", "\n", "\r", "\f"}

Letters == Range(LOWER) \cup Range(UPPER)
Digits == Range(DIGITS)

\* str.strip()
Strip(s) ==
    LET solid == {i \in DOMAIN s : s[i] \notin Whitespace}
    IN  IF solid = {} THEN << >>
        ELSE SubSeq(s, MinOf(solid), CHOOSE m \in solid : \A x \in solid : x <= m)

\* str.split(sep) for a one-character separator
RECURSIVE Split(_, _)
Split(s, sep) ==
    LET at == {i \in DOMAIN s : s[i] = sep}
    IN  IF at = {} THEN <<s>>
        ELSE <<SubSeq(s, 1, MinOf(at) - 1)>> \o Split(SubSeq(s, MinOf(at) + 1, Len(s)), sep)

\* sep.join(parts)
RECURSIVE Join(_, _)
Join(parts, sep) ==
    IF parts = << >> THEN << >>
    ELSE IF Len(parts) = 1 THEN parts[1]
    ELSE parts[1] \o sep \o Join(Tail(parts), sep)

\* the first position from p on that holds no whitespace (Len + 1: none)
RECURSIVE skip_space(_, _)
skip_space(s, p) ==
    IF p <= Len(s) /\ s[p] \in Whitespace THEN skip_space(s, p + 1) ELSE p

\* the last position up to p that holds no whitespace (0: none)
RECURSIVE skip_space_back(_, _)
skip_space_back(s, p) ==
    IF p >= 1 /\ s[p] \in Whitespace THEN skip_space_back(s, p - 1) ELSE p

\* the last position up to p that holds no character of the set (0: none)
RECURSIVE skip_back(_, _, _)
skip_back(s, p, set) ==
    IF p >= 1 /\ s[p] \in set THEN skip_back(s, p - 1, set) ELSE p

\* the first position from p on that holds no character of the set
RECURSIVE skip_forward(_, _, _)
skip_forward(s, p, set) ==
    IF p <= Len(s) /\ s[p] \in set THEN skip_forward(s, p + 1, set) ELSE p

\* a backquote cannot stand in a string of the module: "<backtick>" is that character
line_prefixes == << <<"*","*">>, <<"#","#","#">>, <<"#","#">>, <<"#">>, <<"-","-","-">>, <<"<backtick>",
        "<backtick>","<backtick>">>, <<"-"," ","[">>, <<"-"," ","[","x","]">>,
                    <<"*"," ","[">> >>

template_phrases == <<
    <<"p","r","e","f","l","i","g","h","t"," ","c","h","e","c","k","l","i","s","t">>, <<"i",
            " ","h","a","v","e"," ","s","e","a","r","c","h","e","d">>, <<"i"," ","h","a",
            "v","e"," ","c","h","e","c","k","e","d">>, <<"b","u","g"," ","r","e","p","o",
            "r","t">>,
    <<"f","e","a","t","u","r","e"," ","r","e","q","u","e","s","t">>, <<"d","e","s","c","r",
            "i","b","e"," ","t","h","e"," ","b","u","g">>, <<"s","t","e","p","s"," ","t",
            "o"," ","r","e","p","r","o","d","u","c","e">>,
    <<"e","x","p","e","c","t","e","d"," ","b","e","h","a","v","i","o","r">>, <<"a","c","t",
            "u","a","l"," ","b","e","h","a","v","i","o","r">>, <<"s","c","r","e","e","n",
            "s","h","o","t","s">>,
    <<"a","d","d","i","t","i","o","n","a","l"," ","c","o","n","t","e","x","t">>, <<"e","n",
            "v","i","r","o","n","m","e","n","t">>, <<"o","p","e","r","a","t","i","n","g",
            " ","s","y","s","t","e","m">>, <<"v","e","r","s","i","o","n",":">>,
    <<"n","o","d","e"," ","v","e","r","s","i","o","n">>, <<"n","p","m"," ","v","e","r","s",
            "i","o","n">>, <<"t","o"," ","r","e","p","r","o","d","u","c","e">>, <<"r","e",
            "l","e","v","a","n","t"," ","l","o","g">>,
    <<"c","h","e","c","k","l","i","s","t">> >>

code_prefixes == << <<"/">>, <<"a","t"," ">>, <<"E","r","r","o","r",":">>, <<"T","y","p",
        "e","E","r","r","o","r">>, <<"S","y","n","t","a","x","E","r","r","o","r">> >>

KEY_VALUE_MAX_LEN == 80

\* re.match(r'^[A-Za-z\s]+:\s*\S+', line): letters and whitespace, at least
\* one, up to the first colon, then a character that is not whitespace
matches_key_value(line) ==
    LET colon == skip_forward(line, 1, Letters \cup Whitespace)
    IN  /\ colon >= 2
        /\ colon <= Len(line)
        /\ line[colon] = ":"
        /\ skip_space(line, colon + 1) <= Len(line)

\* variant of is_template_line: nothing is taken for boilerplate but the empty line
is_template_line_blank_only(raw) == Strip(raw) = << >>

is_template_line(raw) ==
    LET line == Strip(raw)
        line_lower == Lower(line)
    IN  \/ line = << >>
        \/ \E i \in DOMAIN line_prefixes : StartsWith(line, line_prefixes[i])
        \/ \E i \in DOMAIN template_phrases : Contains(line_lower, template_phrases[i])
        \/ matches_key_value(line) /\ Len(line) < KEY_VALUE_MAX_LEN
        \/ \E i \in DOMAIN code_prefixes : StartsWith(line, code_prefixes[i])

sentiment_words == <<
    [word |-> <<"f","r","u","s","t","r","a","t","e","d">>, weight |-> 3], [word |-> <<"f",
            "r","u","s","t","r","a","t","i","n","g">>, weight |-> 3],
    [word |-> <<"a","n","n","o","y","i","n","g">>, weight |-> 3], [word |-> <<"a","n","n",
            "o","y","e","d">>, weight |-> 3],
    [word |-> <<"l","o","v","e">>, weight |-> 3], [word |-> <<"g","r","e","a","t">>, weight |-> 2],
    [word |-> <<"a","w","e","s","o","m","e">>, weight |-> 2], [word |-> <<"a","m","a","z",
            "i","n","g">>, weight |-> 2],
    [word |-> <<"w","i","s","h">>, weight |-> 2], [word |-> <<"h","o","p","e">>, weight |-> 2],
    [word |-> <<"w","o","u","l","d"," ","b","e"," ","n","i","c","e">>, weight |-> 3], [word |-> <<"b",
            "r","o","k","e","n">>, weight |-> 2],
    [word |-> <<"c","o","n","f","u","s","e","d">>, weight |-> 2], [word |-> <<"c","o","n",
            "f","u","s","i","n","g">>, weight |-> 2],
    [word |-> <<"u","n","c","l","e","a","r">>, weight |-> 2], [word |-> <<"d","i","f","f",
            "i","c","u","l","t">>, weight |-> 2],
    [word |-> <<"h","a","r","d"," ","t","o">>, weight |-> 2], [word |-> <<"i","m","p","o",
            "s","s","i","b","l","e">>, weight |-> 3],
    [word |-> <<"d","o","e","s","n","'","t"," ","w","o","r","k">>, weight |-> 3],
    [word |-> <<"n","o","t"," ","w","o","r","k","i","n","g">>, weight |-> 3],
    [word |-> <<"s","t","o","p","p","e","d"," ","w","o","r","k","i","n","g">>, weight |-> 3],
             [word |-> <<"p","l","e","a","s","e">>, weight |-> 1],
    [word |-> <<"n","e","e","d">>, weight |-> 1], [word |-> <<"i","m","p","o","r","t","a",
            "n","t">>, weight |-> 2],
    [word |-> <<"c","r","i","t","i","c","a","l">>, weight |-> 3], [word |-> <<"u","n","f",
            "o","r","t","u","n","a","t","e","l","y">>, weight |-> 2],
    [word |-> <<"d","i","s","a","p","p","o","i","n","t","e","d">>, weight |-> 3], [word |-> <<"e",
            "x","p","e","c","t","e","d">>, weight |-> 1],
    [word |-> <<"b","u","t">>, weight |-> 1], [word |-> <<"h","o","w","e","v","e","r">>, weight |-> 1],
    [word |-> <<"i","n","s","t","e","a","d">>, weight |-> 1], [word |-> <<"k","e","e","p",
            "s">>, weight |-> 2],
    [word |-> <<"a","l","w","a","y","s">>, weight |-> 1], [word |-> <<"n","e","v","e","r">>,
             weight |-> 2],
    [word |-> <<"e","v","e","r","y"," ","t","i","m","e">>, weight |-> 2], [word |-> <<"c",
            "a","n","'","t">>, weight |-> 2],
    [word |-> <<"c","a","n","n","o","t">>, weight |-> 2], [word |-> <<"u","n","a","b","l",
            "e">>, weight |-> 2],
    [word |-> <<"s","h","o","u","l","d">>, weight |-> 1], [word |-> <<"s","h","o","u","l",
            "d","n","'","t">>, weight |-> 2],
    [word |-> <<"w","h","y">>, weight |-> 1], [word |-> <<"b","e","t","t","e","r">>, weight |-> 1],
    [word |-> <<"w","o","r","s","e">>, weight |-> 2], [word |-> <<"t","e","r","r","i","b",
            "l","e">>, weight |-> 3],
    [word |-> <<"h","o","r","r","i","b","l","e">>, weight |-> 3], [word |-> <<"u","s","e",
            "f","u","l">>, weight |-> 2],
    [word |-> <<"h","e","l","p","f","u","l">>, weight |-> 2], [word |-> <<"u","s","e","l",
            "e","s","s">>, weight |-> 3] >>

first_person == << <<"i">>, <<"m","y">>, <<"m","e">>, <<"w","e">>, <<"o","u","r">> >>

\* re.search(r'\b(i|my|me|we|our)\b', text_lower)
has_first_person(text_lower) ==
    \E a \in DOMAIN first_person :
        \E p \in 1..(Len(text_lower) - Len(first_person[a]) + 1) :
            /\ SubSeq(text_lower, p, p + Len(first_person[a]) - 1) = first_person[a]
            /\ word_boundary(text_lower, p)
            /\ word_boundary(text_lower, p + Len(first_person[a]))

RECURSIVE sentiment_sum(_, _)
sentiment_sum(text_lower, k) ==
    IF k > Len(sentiment_words) THEN 0
    ELSE (IF Contains(text_lower, sentiment_words[k].word)
          THEN sentiment_words[k].weight ELSE 0)
         + sentiment_sum(text_lower, k + 1)

score_quote_sentiment(text) ==
    LET text_lower == Lower(text)
    IN  sentiment_sum(text_lower, 1) + (IF has_first_person(text_lower) THEN 1 ELSE 0)

\* re.search(r':\s*\d+\.?\s*$', text): read from the end, an optional dot,
\* digits, optional whitespace, a colon
ends_with_colon_number(text) ==
    LET e0 == skip_space_back(text, Len(text))
        e1 == IF e0 >= 1 /\ text[e0] = "." THEN e0 - 1 ELSE e0
        e2 == skip_back(text, e1, Digits)
        e3 == skip_space_back(text, e2)
    IN  e2 < e1 /\ e3 >= 1 /\ text[e3] = ":"

\* re.search of word\s*-\s*feature
matches_level_feature(text_lower, level) ==
    \E p \in 1..(Len(text_lower) - Len(level) + 1) :
        /\ SubSeq(text_lower, p, p + Len(level) - 1) = level
        /\ LET dash == skip_space(text_lower, p + Len(level))
           IN  /\ dash <= Len(text_lower)
               /\ text_lower[dash] = "-"
               /\ LET word == skip_space(text_lower, dash + 1)
                  IN  StartsWith(SubSeq(text_lower, word, Len(text_lower)), <<"f","e","a",
                          "t","u","r","e">>)

\* re.search(r'issue #\d+', text_lower)
matches_issue_number(text_lower) ==
    \E p \in 1..(Len(text_lower) - 7) :
        SubSeq(text_lower, p, p + 6) = <<"i","s","s","u","e"," ","#">> /\ text_lower[p + 7] \in Digits

boilerplate_literals == << <<"t","e","s","t"," ","c","o","v","e","r","a","g","e">>, <<"d",
        "i","s","c","o","v","e","r","e","d"," ","d","u","r","i","n","g">>, <<"t","e","s",
        "t"," ","f","i","l","e",":">>,
                           <<"w","o","r","k","a","r","o","u","n","d">>, <<"m","a","n","u",
                                   "a","l"," ","v","e","r","i","f","i","c","a","t","i","o",
                                   "n">>, <<"p","r","e","f","l","i","g","h","t">>,
                           <<"c","h","e","c","k","l","i","s","t">> >>

\* re.match(r'^\d+\.\s*\w+:?\s*$', text): digits, a dot, a word, an optional colon
is_numbered_label(text) ==
    LET dot == skip_forward(text, 1, Digits)
        word == skip_space(text, dot + 1)
        after == skip_forward(text, word, WordChars)
        colon == IF after <= Len(text) /\ text[after] = ":" THEN after + 1 ELSE after
    IN  /\ dot >= 2 /\ dot <= Len(text) /\ text[dot] = "."
        /\ after > word
        /\ skip_space(text, colon) > Len(text)

is_boilerplate_sentence(text) ==
    LET text_stripped == Strip(text)
        text_lower == Lower(text_stripped)
    IN  \/ ends_with_colon_number(text_stripped)
        \/ \E i \in DOMAIN boilerplate_literals : Contains(text_lower, boilerplate_literals[i])
        \/ matches_issue_number(text_lower)
        \/ \E level \in {<<"m","e","d","i","u","m">>, <<"l","o","w">>, <<"h","i","g","h">>} :
                matches_level_feature(text_lower, level)
        \/ EndsWith(text_stripped, <<":">>)
        \/ is_numbered_label(text_stripped)

\* re.split(r'(?<=[.!?])\s+', text): cut at every stretch of whitespace that
\* follows a full stop, an exclamation mark or a question mark
RECURSIVE split_sentences(_)
split_sentences(text) ==
    LET cuts == {p \in 2..Len(text) :
                    text[p] \in Whitespace /\ text[p - 1] \in {".", "!", "?"}}
    IN  IF cuts = {} THEN <<text>>
        ELSE LET p == MinOf(cuts)
             IN  <<SubSeq(text, 1, p - 1)>>
                 \o split_sentences(SubSeq(text, skip_space(text, p), Len(text)))

BODY_MIN_LEN == 50
QUOTE_MIN_LEN == 50
QUOTE_MAX_LEN == 350
MIN_SCORE == 2
MAX_QUOTES == 5

\* lines 358-364: the sentences of a body
body_sentences(body) ==
    LET lines == Split(body, "\n")
        kept == SelectSeq(lines, LAMBDA line : ~is_template_line(line))
        clean_lines == [i \in DOMAIN kept |-> Strip(kept[i])]
    IN  split_sentences(Join(clean_lines, <<" ">>))

\* lines 366-391 for one sentence: does it become a candidate
qualifies(sentence) ==
    /\ Len(sentence) >= QUOTE_MIN_LEN
    /\ Len(sentence) <= QUOTE_MAX_LEN
    /\ ~is_template_line(sentence)
    /\ ~is_boilerplate_sentence(sentence)
    /\ score_quote_sentiment(sentence) >= MIN_SCORE

\* lines 351-391 for one item: the candidates it adds, in sentence order
issue_candidates(item) ==
    LET body == item.issue.body
    IN  IF body = << >> \/ Len(body) < BODY_MIN_LEN THEN << >>
        ELSE LET sentences == body_sentences(body)
                 stripped == [i \in DOMAIN sentences |-> Strip(sentences[i])]
                 kept == SelectSeq(stripped, qualifies)
             IN  [i \in DOMAIN kept |->
                    [text |-> kept[i], issue_number |-> item.issue.number,
                     category |-> item.category,
                     score |-> score_quote_sentiment(kept[i])]]

Scores(candidates) == [i \in DOMAIN candidates |-> candidates[i].score]

\* variant of sort_candidates: sorted(...) by ascending score
sort_candidates_ascending(candidates) ==
    LET desc == sorted_desc(candidates, Scores(candidates))
    IN  [i \in DOMAIN desc |-> desc[Len(desc) + 1 - i]]

\* variant of sort_candidates: equal scores in reverse order of discovery
sort_candidates_unstable(candidates) ==
    LET rev == [i \in DOMAIN candidates |-> candidates[Len(candidates) + 1 - i]]
    IN  sorted_desc(rev, Scores(rev))

\* candidate_quotes.sort(key=lambda x: x["score"], reverse=True)
sort_candidates(candidates) == sorted_desc(candidates, Scores(candidates))

\* variant of is_new_issue: every candidate is kept
is_new_issue_always(quote, seen) == TRUE

\* quote["issue_number"] not in seen_issues
is_new_issue(quote, seen) == quote.issue_number \notin seen

\* variant of enough_quotes: the walk goes one quote too far
enough_quotes_late(kept) == Len(kept) > MAX_QUOTES

\* len(quotes) >= 5
enough_quotes(kept) == Len(kept) >= MAX_QUOTES

----------------------------------------------------------------------------
(* Categorized issues supplied to the quote selector: the body, the number  *)
(* and the category of an item are read.  Numbers fall along the list, as   *)
(* in a listing sorted by creation date, newest first.                      *)

\* template lines, a short sentence, a boilerplate sentence, a sentence that
\* scores 0, and three sentences that qualify, scoring 3, 8 and 3
Q_mixed == <<"#","#"," ","D","e","s","c","r","i","p","t","i","o","n","\n","O","S",":"," ",
        "m","a","c","O","S"," ","1","4","\n","I"," ","w","i","s","h"," ","t","h","e"," ",
        "d","i","f","f"," ","v","i","e","w"," ","s","h","o","w","e","d"," ","w","h","i","t",
        "e","s","p","a","c","e"," ","c","h","a","n","g","e","s"," ","m","o","r","e"," ","c",
        "l","e","a","r","l","y",".","\n","W","o","r","k","s"," ","f","i","n","e","."," ",
        "T","h","i","s"," ","w","a","s"," ","d","i","s","c","o","v","e","r","e","d"," ","d",
        "u","r","i","n","g"," ","m","a","n","u","a","l"," ","v","e","r","i","f","i","c","a",
        "t","i","o","n"," ","o","f"," ","t","h","e"," ","r","e","l","e","a","s","e",".","\n",
        "T","h","e"," ","s","i","d","e","b","a","r"," ","r","e","n","d","e","r","s"," ","t",
        "w","i","c","e"," ","a","f","t","e","r"," ","t","h","e"," ","w","i","n","d","o","w",
        " ","i","s"," ","r","e","s","i","z","e","d"," ","o","n"," ","L","i","n","u","x",".",
        "\n","I","t"," ","k","e","e","p","s"," ","c","r","a","s","h","i","n","g"," ","e",
        "v","e","r","y"," ","t","i","m","e"," ","I"," ","o","p","e","n"," ","a"," ","b","i",
        "g"," ","r","e","p","o",","," ","s","o"," ","f","r","u","s","t","r","a","t","i","n",
        "g","!","\n","W","e"," ","h","o","p","e"," ","t","h","e"," ","n","e","x","t"," ",
        "r","e","l","e","a","s","e"," ","m","a","k","e","s"," ","t","h","e"," ","s","e","a",
        "r","c","h"," ","p","a","n","e","l"," ","m","u","c","h"," ","f","a","s","t","e","r",
        ".","\n","-"," ","[","x","]"," ","I"," ","h","a","v","e"," ","s","e","a","r","c",
        "h","e","d"," ","e","x","i","s","t","i","n","g"," ","i","s","s","u","e","s">>

\* one sentence that qualifies, scoring 3
Q_single == <<"T","h","e"," ","n","e","w"," ","p","l","a","n","n","e","r"," ","i","s"," ",
        "g","r","e","a","t"," ","a","n","d"," ","w","e"," ","u","s","e"," ","i","t"," ","f",
        "o","r"," ","e","v","e","r","y"," ","l","a","r","g","e"," ","r","e","f","a","c","t",
        "o","r","i","n","g",".">>

\* shorter than 50 characters
Q_short == <<"I"," ","l","o","v","e"," ","i","t"," ","b","u","t"," ","i","t"," ","i","s",
        " ","b","r","o","k","e","n","!">>

\* three sentences that qualify, scoring 2, 3 and 3: the best score is met twice
Q_tied == <<"T","h","e"," ","e","x","p","o","r","t"," ","d","i","a","l","o","g"," ","i","s",
        " ","u","s","e","f","u","l"," ","f","o","r"," ","s","h","a","r","i","n","g"," ","r",
        "e","s","u","l","t","s"," ","w","i","t","h"," ","t","h","e"," ","w","h","o","l","e",
        " ","t","e","a","m",".","\n","I","t"," ","i","s"," ","f","r","u","s","t","r","a",
        "t","i","n","g"," ","t","h","a","t"," ","t","h","e"," ","t","e","r","m","i","n","a",
        "l"," ","f","r","e","e","z","e","s"," ","w","h","e","n"," ","p","a","s","t","i","n",
        "g"," ","l","o","n","g"," ","t","e","x","t",".","\n","I","t"," ","i","s"," ","f",
        "r","u","s","t","r","a","t","i","n","g"," ","t","h","a","t"," ","t","h","e"," ","e",
        "d","i","t","o","r"," ","l","o","s","e","s"," ","f","o","c","u","s"," ","a","f","t",
        "e","r"," ","e","v","e","r","y"," ","s","i","n","g","l","e"," ","s","a","v","e",".">>

QuoteInputs == { [body |-> Q_mixed, category |-> "bug"],
                 [body |-> Q_tied, category |-> "bug"],
                 [body |-> Q_single, category |-> "feature_request"],
                 [body |-> Q_short, category |-> "other"] }

\* the item an input makes when `before` items stand before it in the list
QuoteItem(input, before) ==
    [issue |-> [number |-> 100 - before, title |-> << >>, body |-> input.body,
                labels |-> << >>],
     category |-> input.category, confidence |-> "low"]

QuoteItems == {QuoteItem(input, before) : input \in QuoteInputs, before \in 0..(MaxQuoteItems - 1)}

\* lines 351-391 for every item the list can hold, evaluated once
ItemCandidates == [item \in QuoteItems |-> issue_candidates(item)]

InitQuotes == pc = "input" /\ InitIdle

AddQuoteItem(input) ==
    /\ pc = "input"
    /\ Len(categorized_issues) < MaxQuoteItems
    /\ categorized_issues' =
        Append(categorized_issues, QuoteItem(input, Len(categorized_issues)))
    /\ UNCHANGED <<pc, issues, categorized, category_groups, group_idx, item_idx,
                   word_counts, themes_by_category, candidate_quotes, seen_issues,
                   quotes>>

\* get_representative_quotes, line 349: candidate_quotes = []
BeginScan ==
    /\ pc = "input"
    /\ candidate_quotes' = << >>
    /\ item_idx' = 1
    /\ pc' = "scan"
    /\ UNCHANGED <<issues, categorized, categorized_issues, category_groups, group_idx,
                   word_counts, themes_by_category, seen_issues, quotes>>

\* lines 351-391: the candidates of one item are appended
ScanIssue ==
    /\ pc = "scan"
    /\ item_idx <= Len(categorized_issues)
    /\ candidate_quotes' = candidate_quotes \o ItemCandidates[categorized_issues[item_idx]]
    /\ item_idx' = item_idx + 1
    /\ UNCHANGED <<pc, issues, categorized, categorized_issues, category_groups,
                   group_idx, word_counts, themes_by_category, seen_issues, quotes>>

\* lines 393-398: the sort, then seen_issues = set() and quotes = []
SortCandidates ==
    /\ pc = "scan"
    /\ item_idx > Len(categorized_issues)
    /\ candidate_quotes' = sort_candidates(candidate_quotes)
    /\ seen_issues' = {}
    /\ quotes' = << >>
    /\ item_idx' = 1
    /\ pc' = "walk"
    /\ UNCHANGED <<issues, categorized, categorized_issues, category_groups, group_idx,
                   word_counts, themes_by_category>>

\* lines 399-404: one candidate of the walk; the break returns
WalkQuote ==
    /\ pc = "walk"
    /\ item_idx <= Len(candidate_quotes)
    /\ LET quote == candidate_quotes[item_idx]
           keep == is_new_issue(quote, seen_issues)
           kept == IF keep THEN Append(quotes, quote) ELSE quotes
       IN  /\ seen_issues' = IF keep THEN seen_issues \cup {quote.issue_number}
                             ELSE seen_issues
           /\ quotes' = kept
           /\ IF enough_quotes(kept)
              THEN pc' = "done" /\ item_idx' = item_idx
              ELSE pc' = pc /\ item_idx' = item_idx + 1
    /\ UNCHANGED <<issues, categorized, categorized_issues, category_groups, group_idx,
                   word_counts, themes_by_category, candidate_quotes>>

\* line 406: return quotes, the candidates exhausted
ReturnQuotes ==
    /\ pc = "walk"
    /\ item_idx > Len(candidate_quotes)
    /\ pc' = "done"
    /\ UNCHANGED <<issues, categorized, categorized_issues, category_groups, group_idx,
                   item_idx, word_counts, themes_by_category, candidate_quotes,
                   seen_issues, quotes>>

NextQuotes ==
    \/ \E input \in QuoteInputs : AddQuoteItem(input)
    \/ BeginScan
    \/ ScanIssue
    \/ SortCandidates
    \/ WalkQuote
    \/ ReturnQuotes

SpecQuotes == InitQuotes /\ [][NextQuotes]_vars

----------------------------------------------------------------------------
(* Claims about the quote selector.                                         *)

\* C3: at most 5 quotes are returned, no two of one issue, in order of
\* non-increasing score.
C3_QuoteBounds ==
    pc = "done" =>
        /\ Len(quotes) <= 5
        /\ \A a, b \in DOMAIN quotes :
            a # b => quotes[a].issue_number # quotes[b].issue_number
        /\ \A a, b \in DOMAIN quotes : a < b => quotes[a].score >= quotes[b].score

\* 5 quotes of unequal scores returned out of the candidates of 6 issues,
\* one issue at least having several candidates
C3_Witness ==
    /\ pc = "done"
    /\ Len(quotes) = 5
    /\ Cardinality({candidate_quotes[i].issue_number : i \in DOMAIN candidate_quotes}) = 6
    /\ quotes[1].score > quotes[5].score
    /\ \E i, j \in DOMAIN candidate_quotes :
        i # j /\ candidate_quotes[i].issue_number = candidate_quotes[j].issue_number

\* the candidates that are the first of their issue in the sorted list
FirstOfIssue ==
    {i \in DOMAIN candidate_quotes :
        \A j \in 1..(i - 1) :
            candidate_quotes[j].issue_number # candidate_quotes[i].issue_number}

\* the position in the input list of the issue a quote comes from
ListPosition(quote) ==
    CHOOSE i \in DOMAIN categorized_issues :
        categorized_issues[i].issue.number = quote.issue_number

\* C7: the sort is a stable descending sort on the score (candidates of
\* equal score keep their discovery order); the walk keeps the first
\* candidate of each issue and stops at 5 quotes kept or at the end of the
\* candidates; of two returned quotes of equal score, the one of the issue
\* earlier in the input list comes first.
C7_StableSortAndWalk ==
    /\ [][(pc = "scan" /\ pc' = "walk") =>
            /\ Len(candidate_quotes') = Len(candidate_quotes)
            /\ \A i \in DOMAIN candidate_quotes :
                LET higher == {j \in DOMAIN candidate_quotes :
                                candidate_quotes[j].score > candidate_quotes[i].score}
                    earlier == {j \in 1..(i - 1) :
                                candidate_quotes[j].score = candidate_quotes[i].score}
                IN  candidate_quotes'[Cardinality(higher) + Cardinality(earlier) + 1]
                        = candidate_quotes[i]]_vars
    /\ [](pc = "done" =>
            /\ Len(quotes) = IF Cardinality(FirstOfIssue) < 5
                             THEN Cardinality(FirstOfIssue) ELSE 5
            /\ \A k \in DOMAIN quotes :
                \E i \in FirstOfIssue :
                    /\ Cardinality({j \in FirstOfIssue : j < i}) = k - 1
                    /\ quotes[k] = candidate_quotes[i]
            /\ IF Len(quotes) = 5
               THEN candidate_quotes[item_idx] = quotes[5]
               ELSE item_idx = Len(candidate_quotes) + 1
            /\ \A a, b \in DOMAIN quotes :
                (a < b /\ quotes[a].score = quotes[b].score)
                    => ListPosition(quotes[a]) < ListPosition(quotes[b]))

\* the walk stopped at the fifth quote with candidates of another issue
\* left, having skipped a candidate of an issue already quoted, and two of
\* the returned quotes have the same score
C7_Witness ==
    /\ pc = "done"
    /\ Len(quotes) = 5
    /\ \E i \in FirstOfIssue : i > item_idx
    /\ \E i \in 1..item_idx : i \notin FirstOfIssue
    /\ \E a, b \in DOMAIN quotes : a # b /\ quotes[a].score = quotes[b].score


\* the candidates lines 351-391 produce for the issue a quote comes from, in
\* the order of the sentences in its body
CandidatesOfIssue(number) ==
    ItemCandidates[categorized_issues[ListPosition([issue_number |-> number])]]

\* the best candidate of a list: the highest score, the earliest of that score
BestCandidate(candidates) ==
    candidates[CHOOSE i \in DOMAIN candidates :
        /\ \A j \in DOMAIN candidates : candidates[j].score <= candidates[i].score
        /\ \A j \in 1..(i - 1) : candidates[j].score < candidates[i].score]

\* the numbers of the issues that have a qualifying sentence
QuotableIssues ==
    {categorized_issues[i].issue.number : i \in
        {k \in DOMAIN categorized_issues : ItemCandidates[categorized_issues[k]] # << >>}}

QuotedIssues == {quotes[k].issue_number : k \in DOMAIN quotes}

\* C11: in the returned list, the quote of an issue is the qualifying
\* sentence of that issue with the highest score, the earliest in the body
\* among those of that score; no issue left out has a qualifying sentence
\* that scores strictly more than a returned quote; and an issue with a
\* qualifying sentence is left out only when 5 quotes are returned.
C11_BestSentencePerIssue ==
    pc = "done" =>
        /\ \A k \in DOMAIN quotes :
            quotes[k] = BestCandidate(CandidatesOfIssue(quotes[k].issue_number))
        /\ QuotedIssues \subseteq QuotableIssues
        /\ \A n \in QuotableIssues \ QuotedIssues :
            /\ Len(quotes) = 5
            /\ \A k \in DOMAIN quotes :
                BestCandidate(CandidatesOfIssue(n)).score <= quotes[k].score

\* 5 quotes returned and an issue with a qualifying sentence left out; one
\* returned quote is neither the first nor the last qualifying sentence of
\* its issue, and one is the earlier of two sentences that share the best
\* score of their issue, a lower one standing before them
C11_Witness ==
    /\ pc = "done"
    /\ Len(quotes) = 5
    /\ QuotableIssues \ QuotedIssues # {}
    /\ \E k \in DOMAIN quotes :
        LET c == CandidatesOfIssue(quotes[k].issue_number)
        IN  Len(c) = 3 /\ quotes[k] = c[2] /\ c[1].score < c[2].score
                /\ c[3].score < c[2].score
    /\ \E k \in DOMAIN quotes :
        LET c == CandidatesOfIssue(quotes[k].issue_number)
        IN  Len(c) = 3 /\ quotes[k] = c[2] /\ c[1].score < c[2].score
                /\ c[3].score = c[2].score
====
